---- MODULE Spec2Model ----
(***************************************************************************)
(* A model of totalhelp (src/totalhelp/core.py): the heuristic subcommand  *)
(* extractor, the external prober full_help_external, the in-process       *)
(* walker _walk_parser_tree and full_help_from_parser.                     *)
(*                                                                         *)
(* Text.  A help text is a sequence of lines (what str.splitlines gives);  *)
(* a line is a sequence of lexemes.  A lexeme is one character, or an      *)
(* indivisible run of word characters ("clone"), or one of two keywords    *)
(* that only occur at the start of a line: "usage:" (what ^usage: matches, *)
(* in any case) and "Commands:" (a header, what header_pattern matches).   *)
(* A subcommand name is the sequence of lexemes the regex group captured.  *)
(***************************************************************************)
EXTENDS Integers, Sequences, FiniteSets, TLC

VARIABLES
    mode,          \* which entry point this run called
    pc,            \* position of the run in that entry point
    text,          \* extractor run: the argument of _find_subcommands_from_help
    result,        \* extractor run: the list it returned
    command,       \* full_help_external: the base command, a list of tokens
    max_depth,     \* full_help_external: the depth limit
    fmt,           \* the requested output format
    q,             \* the frontier of the run
    visited_paths, \* full_help_external: the paths already probed
    nodes,         \* the _ParserNode list collected so far
    doc,           \* the rendered document, once returned
    probes,        \* history: one record per child process invoked, in order
    exc,           \* the exception the call raised, "" while it raised none
    choices,       \* the parser objects' sub-command registrations
    prog_arg,      \* the prog argument of the in-process entry points
    root_prog,     \* root_parser.prog
    original_prog, \* _walk_parser_tree: the saved root_parser.prog
    visited_parsers, \* _walk_parser_tree: the ids of the parsers enqueued
    node,          \* _walk_parser_tree: the node last yielded
    patches        \* history: the values assigned to root_parser.prog, in order

vars == <<mode, pc, text, result, command, max_depth, fmt, q, visited_paths,
          nodes, doc, probes, exc, choices, prog_arg, root_prog, original_prog,
          visited_parsers, node, patches>>

walkVars == <<choices, prog_arg, root_prog, original_prog, visited_parsers, node,
              patches>>

extractVars == <<text, result>>
externalVars == <<command, max_depth, visited_paths, probes>>

\* a failed re.search / re.match
NoMatch == [found |-> FALSE]
\* a match object and its group
Match(g) == [found |-> TRUE, group |-> g]

\* the in-process variables of a run that calls no in-process entry point
WalkIdle ==
    /\ choices = <<>> /\ prog_arg = <<>> /\ root_prog = <<>> /\ original_prog = <<>>
    /\ visited_parsers = {} /\ node = <<>> /\ patches = <<>>

-----------------------------------------------------------------------------
(* Character classes of the regular expressions.                           *)

\* \s
IsSpace(c) == c = " "

\* \w : a word character, or an indivisible run of them
IsWord(c) == c \notin {" ", "[", "]", "{", "}", ",", "-", "(", ")", "|", "<", ">",
                       ":", "'", "$", "=", ".", "usage:", "Commands:"}

\* [\w,-] : what may stand between the braces of a choice group
IsChoiceChar(c) == IsWord(c) \/ c = "," \/ c = "-"

\* [\w-] : what a command name is made of
IsNameChar(c) == IsWord(c) \/ c = "-"

-----------------------------------------------------------------------------
(* Sequence helpers standing for str methods.                              *)

\* the element of a set of one element
The(S) == CHOOSE x \in S : TRUE

RECURSIVE Flatten(_)
\* the lines of a block as one string, a newline (white space) between them
Flatten(lines) ==
    IF lines = <<>> THEN <<>>
    ELSE IF Len(lines) = 1 THEN lines[1]
    ELSE lines[1] \o <<" ">> \o Flatten(Tail(lines))

\* str.lstrip(): s from its first character that is no white space
LStrip(s) ==
    SubSeq(s, 1 + Cardinality({i \in 1..Len(s) : \A k \in 1..i : IsSpace(s[k])}), Len(s))

\* str.rstrip(): s up to its last character that is no white space
RStrip(s) ==
    SubSeq(s, 1, Len(s) - Cardinality({i \in 1..Len(s) : \A k \in i..Len(s) : IsSpace(s[k])}))

\* str.strip() of one line
Strip(s) == RStrip(LStrip(s))

RECURSIVE SplitJoin(_)
\* " ".join(s.split()) for s without leading white space: every run of white
\* space becomes one space, trailing white space goes
SplitJoin(s) ==
    IF s = <<>> THEN <<>>
    ELSE IF IsSpace(Head(s))
         THEN (IF LStrip(s) = <<>> THEN <<>> ELSE <<" ">> \o SplitJoin(LStrip(s)))
         ELSE <<Head(s)>> \o SplitJoin(Tail(s))

\* " ".join(usage_block.split())
NormalizeSpace(s) == SplitJoin(LStrip(s))

RECURSIVE SplitComma(_)
\* str.split(","): the pieces between commas, empty pieces included
SplitComma(s) ==
    IF \A i \in 1..Len(s) : s[i] # ","
    THEN <<s>>
    ELSE LET k == CHOOSE i \in 1..Len(s) : s[i] = "," /\ \A j \in 1..(i-1) : s[j] # ","
         IN  <<SubSeq(s, 1, k - 1)>> \o SplitComma(SubSeq(s, k + 1, Len(s)))

-----------------------------------------------------------------------------
(* _find_subcommands_from_help, pattern 1: the usage block.                *)

\* re.search(r"^usage:.*?(?=\n\n|\Z)", text, MULTILINE|IGNORECASE|DOTALL):
\* the first line that starts with usage:, up to the first empty line after
\* it or the end of the text.  None when no line starts with usage:.
usage_block_match(t) ==
    LET starts == {i \in 1..Len(t) : t[i] # <<>> /\ t[i][1] = "usage:"}
    IN  IF starts = {} THEN NoMatch
        ELSE LET i == CHOOSE k \in starts : \A m \in starts : k <= m
                 ends == {j \in (i+1)..Len(t) : t[j] = <<>>}
                 last == IF ends = {} THEN Len(t)
                         ELSE (CHOOSE k \in ends : \A m \in ends : k <= m) - 1
             IN  Match(SubSeq(t, i, last))

RECURSIVE usage_without_optionals(_)
\* re.sub(r"\[.*?\]", "", usage_line): from each "[" to the NEXT "]" is removed,
\* scanning left to right; a "[" with no "]" after it stays
usage_without_optionals(s) ==
    IF s = <<>> THEN <<>>
    ELSE IF Head(s) = "[" /\ \E k \in 2..Len(s) : s[k] = "]"
         THEN LET k == CHOOSE i \in 2..Len(s) : s[i] = "]" /\ \A j \in 2..(i-1) : s[j] # "]"
              IN  usage_without_optionals(SubSeq(s, k + 1, Len(s)))
         ELSE <<Head(s)>> \o usage_without_optionals(Tail(s))

\* re.search(r"\{([\w,-]+)\}", s): group 1 of the leftmost match, None without
\* a match.  A match at i is "{", a non-empty run of [\w,-], then "}".
choices_match(s) ==
    LET MatchEnd(i) == {j \in (i+2)..Len(s) :
                          s[j] = "}" /\ \A m \in (i+1)..(j-1) : IsChoiceChar(s[m])}
        at == {i \in 1..Len(s) : s[i] = "{" /\ MatchEnd(i) # {}}
    IN  IF at = {} THEN NoMatch
        ELSE LET i == CHOOSE k \in at : \A m \in at : k <= m
                 j == CHOOSE k \in MatchEnd(i) : TRUE
             IN  Match(SubSeq(s, i + 1, j - 1))

\* lines 359-361: [cmd.strip() for cmd in parts]
StripEach(parts) == [i \in 1..Len(parts) |-> Strip(parts[i])]

\* lines 355-362: whether pattern 1 returns for the usage line, and the list
\* it returns: the comma-split tokens of the first choice group of the usage
\* line with its bracket groups removed
UsageLineChoices(usage_line) ==
    The({ (IF ~m.found THEN NoMatch
           ELSE The({Match(StripEach(parts)) : parts \in {SplitComma(m.group)}}))
          : m \in {choices_match(s) :
                    s \in {usage_without_optionals(u) : u \in {usage_line}}} })

\* lines 350-362: whether pattern 1 returns, and the list it returns
UsagePattern(t) ==
    The({ (IF ~block.found THEN NoMatch
           ELSE UsageLineChoices(NormalizeSpace(Flatten(block.group))))
          : block \in {usage_block_match(t)} })

-----------------------------------------------------------------------------
(* _find_subcommands_from_help, pattern 2: a labeled section.              *)

\* header_pattern.match(line): the line starts with a section header
header_match(line) == line # <<>> /\ line[1] = "Commands:"

\* re.match(r"^\s+([\w-]+)", line): group 1, None without a match
first_word_match(line) ==
    LET rest == LStrip(line)
        n == Len(line) - Len(rest)
        run == {k \in 1..Len(rest) : \A m \in 1..k : IsNameChar(rest[m])}
    IN  IF n = 0 \/ run = {} THEN NoMatch
        ELSE Match(SubSeq(rest, 1, CHOOSE k \in run : \A m \in run : m <= k))

RECURSIVE ScanLines(_, _, _)
\* the loop of lines 375-395 over the lines left, from the loop's state
ScanLines(lines, in_command_section, commands) ==
    IF lines = <<>> THEN commands
    ELSE LET line == Head(lines)
             rest == Tail(lines)
         IN  IF header_match(line) THEN ScanLines(rest, TRUE, commands)
             ELSE IF ~in_command_section THEN ScanLines(rest, FALSE, commands)
             ELSE IF Strip(line) = <<>> \/ ~IsSpace(line[1])
                  THEN ScanLines(rest, FALSE, commands)
             ELSE IF Head(Strip(line)) = "{" THEN ScanLines(rest, TRUE, commands)
             ELSE LET m == first_word_match(line)
                  IN  IF ~m.found THEN ScanLines(rest, TRUE, commands)
                      ELSE ScanLines(rest, TRUE, Append(commands, m.group))

\* lines 366-396
SectionPattern(t) ==
    IF \E i \in 1..Len(t) : header_match(t[i])
    THEN ScanLines(t, FALSE, <<>>)
    ELSE <<>>

\* the chain in the wrong order: the labeled section is tried first
SectionPatternFirst(t) ==
    IF SectionPattern(t) # <<>> THEN SectionPattern(t)
    ELSE IF UsagePattern(t).found THEN UsagePattern(t).group ELSE <<>>

\* _find_subcommands_from_help(text)
_find_subcommands_from_help(t) ==
    The({ (IF m.found THEN m.group ELSE SectionPattern(t)) : m \in {UsagePattern(t)} })

-----------------------------------------------------------------------------
(* The extractor run: one call of _find_subcommands_from_help on a text    *)
(* made of a usage block and a labeled section.                            *)

\* how many items the usage line of an extractor run holds at most
MaxUsageItems == 5
\* how many entry lines the labeled section of an extractor run holds at most
MaxSectionLines == 2

\* what a usage line is made of, after "usage: prog"
UsageItems ==
    { <<"[">>, <<"]">>, <<"{", "a", ",", "b", "}">>, <<" ", "{", "c", "}">> }

\* the lines a labeled section may hold: two command entries, a restated
\* choice set, a wrapped description that starts with punctuation and one
\* that starts with a word
SectionLines ==
    { <<" ", " ", "a", " ", "x">>, <<" ", " ", "b", "-", "c", " ", "x">>,
      <<" ", " ", "{", "a", ",", "b", "}">>,
      <<" ", " ", " ", " ", "(", "x", ")">>, <<" ", " ", " ", " ", "x", " ", "y">> }

RECURSIVE Concat(_)
Concat(ss) == IF ss = <<>> THEN <<>> ELSE Head(ss) \o Concat(Tail(ss))

SeqsUpTo(S, n) == UNION {[1..k -> S] : k \in 0..n}

\* the usage line "usage: prog <items>"
UsageLineOf(items) == <<"usage:", " ", "prog", " ">> \o Concat(items)

\* the section: a blank line, the header, the entry lines
SectionOf(ls) == IF ls = <<>> THEN <<>> ELSE <<<<>>, <<"Commands:">>>> \o ls

\* the git usage line of test_find_subcommands_from_help
GitUsage ==
    <<"usage:", " ", "git", " ", "[", "-", "v", " ", "|", " ", "-", "-", "version", "]",
      " ", "{", "clone", ",", "init", ",", "add", ",", "mv", ",", "reset", ",",
      "rm", ",", "bisect", ",", "grep", "}">>

\* the inputs of an extractor run: a long usage line with a section of at
\* most one line, a usage line of at most one item with a long section, and
\* the git usage line
ExtractInputs ==
    { <<UsageLineOf(items)>> \o SectionOf(ls) :
        items \in SeqsUpTo(UsageItems, MaxUsageItems),
        ls \in {<<>>} \cup {<<l>> : l \in SectionLines} }
    \cup
    { <<UsageLineOf(items)>> \o SectionOf(ls) :
        items \in {<<>>} \cup {<<i>> : i \in UsageItems},
        ls \in SeqsUpTo(SectionLines, MaxSectionLines) }
    \cup { <<GitUsage>> }

InitExtract ==
    /\ mode = "extract"
    /\ pc = "call"
    /\ text \in ExtractInputs
    /\ result = <<>>
    /\ command = <<>> /\ max_depth = 0 /\ fmt = "text" /\ q = <<>>
    /\ visited_paths = {} /\ nodes = <<>> /\ doc = <<>> /\ probes = <<>>
    /\ exc = ""
    /\ WalkIdle

Extract ==
    /\ mode = "extract"
    /\ pc = "call"
    /\ result' = _find_subcommands_from_help(text)
    /\ pc' = "returned"
    /\ UNCHANGED <<mode, text, fmt, q, nodes, doc, exc>>
    /\ UNCHANGED externalVars
    /\ UNCHANGED walkVars

NextExtract == Extract

SpecExtract == InitExtract /\ [][NextExtract]_vars

-----------------------------------------------------------------------------
(* The renderers.  A document is the list of its lines.                    *)

\* the width of the rule between two sections of the plain-text document
RuleWidth == 78

RECURSIVE JoinWith(_, _)
\* sep.join(tokens)
JoinWith(tokens, sep) ==
    IF tokens = <<>> THEN <<>>
    ELSE IF Len(tokens) = 1 THEN tokens[1]
    ELSE tokens[1] \o sep \o JoinWith(Tail(tokens), sep)

RECURSIVE CharLen(_)
\* len(s), in characters
CharLen(s) == IF s = <<>> THEN 0 ELSE Len(Head(s)) + CharLen(Tail(s))

\* a line of white space only
IsBlank(line) == \A k \in 1..Len(line) : IsSpace(line[k])

\* t without the blank lines it starts with
DropBlankHead(t) ==
    SubSeq(t, 1 + Cardinality({i \in 1..Len(t) : \A k \in 1..i : IsBlank(t[k])}), Len(t))

\* t without the blank lines it ends with
DropBlankTail(t) ==
    SubSeq(t, 1, Len(t) - Cardinality({i \in 1..Len(t) : \A k \in i..Len(t) : IsBlank(t[k])}))

\* str.strip() of a text u that neither starts nor ends with a blank line
StripEnds(u) ==
    IF u = <<>> THEN <<>>
    ELSE IF Len(u) = 1 THEN <<Strip(u[1])>>
    ELSE <<LStrip(u[1])>> \o SubSeq(u, 2, Len(u) - 1) \o <<RStrip(u[Len(u)])>>

\* str.strip() of a text of several lines
StripText(t) ==
    The({StripEnds(u) : u \in {DropBlankTail(h) : h \in {DropBlankHead(v) : v \in {t}}}})

\* the lines one item of "\n".join(output) gives: the empty string is one
\* empty line
ItemLines(t) == IF t = <<>> THEN << <<>> >> ELSE t

\* the _HelpOnlyParser of full_help_external
HelpOnlyParser(help_text, prog) ==
    [kind |-> "HelpOnly", help_text |-> help_text, prog |-> prog]

\* an argparse.ArgumentParser the caller built, known by its identity
ArgumentParser(id) == [kind |-> "Parser", id |-> id]

\* the root parser of an in-process run
Root == "root"

\* parser.prog: the root's is the variable the walker patches; a subparser's
\* was fixed when it was registered
ProgOf(id) == IF id = Root THEN root_prog ELSE <<"cli", " ", id>>

\* ArgumentParser.format_help(): the usage line, which names parser.prog as
\* it is when the help is formatted
format_help(parser) ==
    << <<"usage:", " ">> \o ProgOf(parser.id) \o <<" ", "[", "-", "h", "]">> >>

\* _get_help_string(parser): parser.format_help()
_get_help_string(parser) ==
    IF parser.kind = "HelpOnly" THEN parser.help_text ELSE format_help(parser)

\* " ".join((prog,) + node.path)
PathStr(nd, prog) == JoinWith(<<prog>> \o nd.path, <<" ">>)

\* the title line of a node's section in the plain-text document
TextTitle(nd, prog) == <<"$", " ">> \o PathStr(nd, prog) \o <<" ", "--help">>

\* the rule appended after every node, the last one too
TextSectionRuleAlways(ns, prog, i) ==
    <<TextTitle(ns[i], prog), [k \in 1..CharLen(TextTitle(ns[i], prog)) |-> "="]>>
    \o ItemLines(StripText(_get_help_string(ns[i].parser)))
    \o << <<>>, [k \in 1..RuleWidth |-> "-"], <<>> >>

\* what one turn of the loop of _render_text appends
TextSection(ns, prog, i) ==
    LET title == TextTitle(ns[i], prog)
    IN  <<title, [k \in 1..CharLen(title) |-> "="]>>
        \o ItemLines(StripText(_get_help_string(ns[i].parser)))
        \o (IF i < Len(ns) THEN << <<>>, [k \in 1..RuleWidth |-> "-"], <<>> >> ELSE <<>>)

RECURSIVE TextSectionsFrom(_, _, _)
\* the loop of _render_text from its i-th turn on
TextSectionsFrom(ns, prog, i) ==
    IF i > Len(ns) THEN <<>>
    ELSE TextSection(ns, prog, i) \o TextSectionsFrom(ns, prog, i + 1)

_render_text(ns, prog) == TextSectionsFrom(ns, prog, 1)

\* what one turn of the loop of _render_md appends ("BACKTICK" is the
\* backquote character, "FENCE" three of them)
MdSection(nd, prog) ==
    << [k \in 1..(Len(nd.path) + 2) |-> "#"] \o <<" ", "BACKTICK">> \o PathStr(nd, prog)
         \o <<"BACKTICK">>,
       <<>>,
       <<"FENCE", "text">> >>
    \o ItemLines(StripText(_get_help_string(nd.parser)))
    \o << <<"FENCE">>, <<>> >>

RECURSIVE MdSectionsFrom(_, _, _)
\* the loop of _render_md from its i-th turn on
MdSectionsFrom(ns, prog, i) ==
    IF i > Len(ns) THEN <<>>
    ELSE MdSection(ns[i], prog) \o MdSectionsFrom(ns, prog, i + 1)

_render_md(ns, prog) ==
    << <<"#", " ", "Help", " ", "for", " ", "BACKTICK">> \o prog \o <<"BACKTICK">>, <<>> >>
    \o MdSectionsFrom(ns, prog, 1)

\* the id of a node's heading in the HTML document
Anchor(nd) ==
    IF nd.path # <<>> THEN <<"cmd", "-">> \o JoinWith(nd.path, <<"-">>)
    ELSE <<"cmd", "-", "root">>

\* help_text.replace("&", "&amp;").replace("<", "&lt;").replace(">", "&gt;")
EscapeLine(line) ==
    [k \in 1..Len(line) |->
        IF line[k] = "&" THEN "&amp;"
        ELSE IF line[k] = "<" THEN "&lt;"
        ELSE IF line[k] = ">" THEN "&gt;"
        ELSE line[k]]

\* the replacements, line by line
EscapeText(t) == The({[k \in 1..Len(h) |-> EscapeLine(h[k])] : h \in {t}})

Min(a, b) == IF a <= b THEN a ELSE b

\* the HTML document: its navigation entries and its body sections (the
\* page around them is fixed text)
_render_html(ns, prog) ==
    [title |-> prog,
     toc |-> [i \in 1..Len(ns) |->
                [margin |-> Len(ns[i].path) * 20,
                 href |-> Anchor(ns[i]),
                 label |-> PathStr(ns[i], prog)]],
     body |-> [i \in 1..Len(ns) |->
                [heading_level |-> Min(Len(ns[i].path) + 2, 6),
                 id |-> Anchor(ns[i]),
                 code |-> PathStr(ns[i], prog) \o <<" ", "--help">>,
                 pre |-> EscapeText(StripText(_get_help_string(ns[i].parser)))]]]

\* the keys of the renderers mapping
Formats == {"text", "md", "html"}

\* renderers[fmt](nodes, prog)
Render(f, ns, prog) ==
    IF f = "text" THEN _render_text(ns, prog)
    ELSE IF f = "md" THEN _render_md(ns, prog)
    ELSE _render_html(ns, prog)

-----------------------------------------------------------------------------
(* full_help_external.                                                     *)

\* the largest max_depth a run is called with
MaxDepth == 1

\* what a caller may pass as fmt: the three formats and one that is none
FormatArgs == Formats \cup {"pdf"}

\* the base commands: one token, and two tokens ("pip install")
Commands == { << <<"p">> >>, << <<"p">>, <<"a">> >> }

\* help texts a child process may print: no subcommands; a choice group in
\* the usage line; a labeled section that lists the program's own token, twice
HelpLeaf == << <<"usage:", " ", "p", " ", "[", "-", "h", "]">> >>
HelpBrace == << <<"usage:", " ", "p", " ", "[", "-", "v", "]", " ", "{", "a", ",", "b", "}">> >>
HelpSection ==
    << <<"usage:", " ", "p", " ", "[", "x", "]", " ", "<", "command", ">">>,
       <<>>,
       <<"Commands:">>,
       <<" ", " ", "p", " ", " ", "x">>,
       <<" ", " ", "p", " ", "y">> >>

\* what subprocess.run may do: return (exit code, stdout + stderr) or raise
Exit(rc, out) == [kind |-> "exit", returncode |-> rc, output |-> out]
Raise(e) == [kind |-> e]
Outcomes ==
    { Exit(0, HelpLeaf), Exit(0, HelpSection), Exit(1, HelpBrace),
      Raise("FileNotFoundError"), Raise("TimeoutExpired"), Raise("Exception") }

\* the line "[Warning: command exited with code <rc>]"
WarningLine(rc) ==
    <<"[", "Warning", ":", " ", "command", " ", "exited", " ", "with", " ", "code", " ",
      IF rc = 1 THEN "1" ELSE "n", "]">>

\* the banner put before the output with no line break between them
WithBannerNoNewline(rc, out) ==
    IF out = <<>> THEN <<WarningLine(rc)>>
    ELSE <<WarningLine(rc) \o Head(out)>> \o Tail(out)

\* lines 465-468: the banner, a blank line, then the captured output
WithBanner(rc, out) == <<WarningLine(rc), <<>>>> \o out

\* the handlers in the wrong order: except Exception comes first and takes
\* every exception
HelpTextOfCatchAll(o, current_prog) ==
    IF o.kind = "exit"
    THEN (IF o.returncode # 0 THEN WithBanner(o.returncode, o.output) ELSE o.output)
    ELSE << <<"[", "Error", ":", " ", "an", " ", "unexpected", " ", "error", " ",
              "occurred", ":", " ", "e", "]">> >>

\* lines 451-475: the help text of a probe from what subprocess.run did
HelpTextOf(o, current_prog) ==
    IF o.kind = "exit"
    THEN (IF o.returncode # 0 THEN WithBanner(o.returncode, o.output) ELSE o.output)
    ELSE IF o.kind = "FileNotFoundError"
    THEN << <<"[", "Error", ":", " ", "command", " ", "not", " ", "found", ":", " ", "'">>
            \o current_prog \o <<"'", "]">> >>
    ELSE IF o.kind = "TimeoutExpired"
    THEN << <<"[", "Error", ":", " ", "command", " ", "timed", " ", "out", " ", "after",
              " ", "5", ".", "0", " ", "seconds", "]">> >>
    ELSE << <<"[", "Error", ":", " ", "an", " ", "unexpected", " ", "error", " ",
              "occurred", ":", " ", "e", "]">> >>

RECURSIVE Enqueue(_, _, _, _)
\* lines 482-485: the frontier after the loop over subcommands
Enqueue(queue, path, subcommands, visited) ==
    IF subcommands = <<>> THEN queue
    ELSE LET new_path == Append(path, Head(subcommands))
         IN  Enqueue(IF new_path \notin visited
                     THEN Append(queue, [path |-> new_path, cmd_list |-> command \o new_path])
                     ELSE queue,
                     path, Tail(subcommands), visited)

\* the depth test off by one
TooDeepOffByOne(path) == Len(path) > max_depth + 1

\* line 443: len(path) > max_depth
TooDeep(path) == Len(path) > max_depth

\* q.pop() in place of q.pop(0): the entry enqueued last is taken first
PopPathLast(queue) ==
    [entry |-> queue[Len(queue)], rest |-> SubSeq(queue, 1, Len(queue) - 1)]

\* q[0] in place of q.pop(0): the entry is read and stays in the frontier
PopPathPeek(queue) == [entry |-> Head(queue), rest |-> queue]

\* line 441: q.pop(0), the entry taken and the frontier left
PopPath(queue) == [entry |-> Head(queue), rest |-> Tail(queue)]

InitExternal ==
    /\ mode = "external"
    /\ pc = "loop"
    /\ command \in Commands
    /\ max_depth \in 0..MaxDepth
    /\ fmt \in FormatArgs
    /\ q = << [path |-> <<>>, cmd_list |-> command] >>
    /\ visited_paths = {}
    /\ nodes = <<>>
    /\ probes = <<>>
    /\ doc = <<>>
    /\ exc = ""
    /\ text = <<>> /\ result = <<>>
    /\ WalkIdle

\* lines 441-444: a path deeper than max_depth is dropped
SkipDeep ==
    /\ mode = "external" /\ pc = "loop" /\ q # <<>>
    /\ TooDeep(PopPath(q).entry.path)
    /\ q' = PopPath(q).rest
    /\ UNCHANGED <<mode, pc, fmt, nodes, doc, exc>>
    /\ UNCHANGED externalVars
    /\ UNCHANGED extractVars
    /\ UNCHANGED walkVars

\* lines 446-448: a path probed before is dropped
SkipVisited ==
    /\ mode = "external" /\ pc = "loop" /\ q # <<>>
    /\ ~TooDeep(PopPath(q).entry.path)
    /\ PopPath(q).entry.path \in visited_paths
    /\ q' = PopPath(q).rest
    /\ UNCHANGED <<mode, pc, fmt, nodes, doc, exc>>
    /\ UNCHANGED externalVars
    /\ UNCHANGED extractVars
    /\ UNCHANGED walkVars

\* lines 449-485: the child process is run and its help text recorded and
\* searched for subcommands
Probe ==
    /\ mode = "external" /\ pc = "loop" /\ q # <<>>
    /\ ~TooDeep(PopPath(q).entry.path)
    /\ PopPath(q).entry.path \notin visited_paths
    /\ \E o \in Outcomes :
       \E current_prog \in {JoinWith(PopPath(q).entry.cmd_list, <<" ">>)} :
       \E help_text \in {HelpTextOf(o, current_prog)} :
       \E subcommands \in {_find_subcommands_from_help(help_text)} :
         LET path == PopPath(q).entry.path
             cmd_list == PopPath(q).entry.cmd_list
         IN  /\ visited_paths' = visited_paths \cup {path}
             /\ nodes' = Append(nodes,
                    [path |-> path,
                     parser |-> HelpOnlyParser(StripText(help_text), current_prog)])
             /\ q' = Enqueue(PopPath(q).rest, path, subcommands, visited_paths')
             /\ probes' = Append(probes,
                    [path |-> path, argv |-> Append(cmd_list, <<"--help">>),
                     outcome |-> o,
                     enqueued |-> SubSeq(q', Len(PopPath(q).rest) + 1, Len(q'))])
    /\ UNCHANGED <<mode, pc, fmt, doc, exc, command, max_depth>>
    /\ UNCHANGED extractVars
    /\ UNCHANGED walkVars

\* lines 487-493, fmt one of the renderers' keys
ReturnExternal ==
    /\ mode = "external" /\ pc = "loop" /\ q = <<>>
    /\ fmt \in Formats
    /\ doc' = Render(fmt, nodes, command[1])
    /\ pc' = "returned"
    /\ UNCHANGED <<mode, fmt, q, nodes, exc>>
    /\ UNCHANGED externalVars
    /\ UNCHANGED extractVars
    /\ UNCHANGED walkVars

\* line 493, fmt no key of renderers: KeyError
RaiseExternal ==
    /\ mode = "external" /\ pc = "loop" /\ q = <<>>
    /\ fmt \notin Formats
    /\ pc' = "raised"
    /\ exc' = "KeyError"
    /\ UNCHANGED <<mode, fmt, q, nodes, doc>>
    /\ UNCHANGED externalVars
    /\ UNCHANGED extractVars
    /\ UNCHANGED walkVars

NextExternal == SkipDeep \/ SkipVisited \/ Probe \/ ReturnExternal \/ RaiseExternal

SpecExternal == InitExternal /\ [][NextExternal]_vars

\* the loop runs on: a blocked child process returns or times out
FairExternal == SpecExternal /\ WF_vars(NextExternal)

-----------------------------------------------------------------------------
(* _walk_parser_tree and full_help_from_parser.                            *)
(*                                                                         *)
(* A parser's _actions holds up to two _SubParsersAction (argparse lets a  *)
(* parser built with parents=[...] add a second one); the choices of an    *)
(* action map names to parser objects.  choices[<<p, k, n>>] is the parser *)
(* registered under name n in action k of parser p.                        *)

\* how many registrations the parser objects of a run hold together
MaxEdges == 3

Parsers == {Root, "p1", "p2"}
ActionIds == <<1, 2>>
\* the names, in the order the choices of an action list them
Names == << <<"a">>, <<"b">> >>

\* where a registration may be: parser, action, name.  Only the root is built
\* with parents=[...] and so has a second subparsers action.
Keys ==
    {key \in {<<p, k, n>> : p \in Parsers, k \in 1..Len(ActionIds), n \in 1..Len(Names)} :
        key[1] = Root \/ key[2] = 1}

\* the prog overrides a caller may pass: none, and "my-app"
ProgArgs == { <<>>, <<"my", "-", "app">> }

\* what a caller of full_help_from_parser may pass as fmt
ParserFormatArgs == {"text", "pdf"}

\* the (name, subparser) pairs of action k of parser p, in choices.items() order
RECURSIVE ItemsFrom(_, _, _)
ItemsFrom(p, k, n) ==
    IF n > Len(Names) THEN <<>>
    ELSE (IF <<p, k, n>> \in DOMAIN choices
          THEN << [name |-> Names[n], subparser |-> choices[<<p, k, n>>]] >>
          ELSE <<>>)
         \o ItemsFrom(p, k, n + 1)

\* the pairs the two nested loops of lines 84-87 visit, in order
RECURSIVE Registrations(_, _)
Registrations(p, k) ==
    IF k > Len(ActionIds) THEN <<>>
    ELSE ItemsFrom(p, k, 1) \o Registrations(p, k + 1)

RECURSIVE Expand(_, _, _, _)
\* lines 84-91: the frontier and the visited set after the loops over the
\* registrations left
Expand(queue, visited, path, items) ==
    IF items = <<>> THEN [q |-> queue, visited |-> visited]
    ELSE LET it == Head(items)
         IN  IF it.subparser \notin visited
             THEN Expand(Append(queue, [path |-> Append(path, it.name),
                                        parser |-> ArgumentParser(it.subparser)]),
                         visited \cup {it.subparser}, path, Tail(items))
             ELSE Expand(queue, visited, path, Tail(items))

RECURSIVE ReachableFrom(_, _)
\* the parser objects reachable from those of S through the registrations g
ReachableFrom(S, g) ==
    LET T == S \cup {g[key] : key \in {x \in DOMAIN g : x[1] \in S}}
    IN  IF T = S THEN S ELSE ReachableFrom(T, g)

\* the registrations a run may start with: at most MaxEdges of them, each on
\* a parser object reachable from the root (the others cannot be looked at)
ChoicesArgs ==
    UNION { {g \in [S -> Parsers] : \A key \in S : key[1] \in ReachableFrom({Root}, g)} :
            S \in {X \in SUBSET Keys : Cardinality(X) <= MaxEdges} }

\* line 225: prog or parser.prog or ""
program_name == IF prog_arg # <<>> THEN prog_arg ELSE root_prog

\* the prog _walk_parser_tree is called with
WalkProg == IF mode = "from_parser" THEN program_name ELSE prog_arg

\* the visited set not seeded with the root
InitialVisitedEmpty == {}

\* line 70: the visited set the walk starts with
InitialVisited == {Root}

\* line 81: q.pop(0), the node taken and the frontier left
PopNode(queue) == [node |-> Head(queue), rest |-> Tail(queue)]

\* no restore: root_parser.prog keeps what it holds
KeptProg == root_prog

\* line 94: what the finally clause assigns to root_parser.prog
RestoredProg == original_prog

\* root_parser.prog as the caller built the parser
BuiltProg == <<"cli">>

InitWalk ==
    /\ mode \in {"walk", "from_parser"}
    /\ pc = "call"
    /\ choices \in ChoicesArgs
    /\ prog_arg \in ProgArgs
    /\ fmt \in (IF mode = "walk" THEN {"text"} ELSE ParserFormatArgs)
    /\ root_prog = BuiltProg
    /\ original_prog = <<>>
    /\ visited_parsers = {}
    /\ node = <<>>
    /\ patches = <<>>
    /\ q = <<>> /\ nodes = <<>> /\ doc = <<>> /\ exc = ""
    /\ command = <<>> /\ max_depth = 0 /\ visited_paths = {} /\ probes = <<>>
    /\ text = <<>> /\ result = <<>>

\* the first next(): lines 69-82, up to the yield of the root node
WalkBegin ==
    /\ mode \in {"walk", "from_parser"} /\ pc = "call"
    /\ original_prog' = root_prog
    /\ IF WalkProg # <<>>
       THEN root_prog' = WalkProg /\ patches' = Append(patches, WalkProg)
       ELSE UNCHANGED <<root_prog, patches>>
    /\ visited_parsers' = InitialVisited
    /\ LET first == PopNode(<< [path |-> <<>>, parser |-> ArgumentParser(Root)] >>)
       IN  q' = first.rest /\ node' = first.node
    /\ nodes' = Append(nodes, node')
    /\ pc' = "yielded"
    /\ UNCHANGED <<mode, fmt, doc, exc, choices, prog_arg>>
    /\ UNCHANGED externalVars
    /\ UNCHANGED extractVars

\* a later next(): lines 84-91 for the node last yielded, then lines 80-82:
\* the next node is popped and yielded
WalkYield ==
    /\ mode \in {"walk", "from_parser"} /\ pc = "yielded"
    /\ LET e == Expand(q, visited_parsers, node.path, Registrations(node.parser.id, 1))
       IN  /\ e.q # <<>>
           /\ visited_parsers' = e.visited
           /\ node' = PopNode(e.q).node
           /\ q' = PopNode(e.q).rest
           /\ nodes' = Append(nodes, PopNode(e.q).node)
    /\ UNCHANGED <<mode, pc, fmt, doc, exc, choices, prog_arg, root_prog,
                   original_prog, patches>>
    /\ UNCHANGED externalVars
    /\ UNCHANGED extractVars

\* the last next(): lines 84-91 leave the frontier empty, the loop ends and
\* the finally clause of lines 92-94 restores the root's prog
WalkExhaust ==
    /\ mode \in {"walk", "from_parser"} /\ pc = "yielded"
    /\ LET e == Expand(q, visited_parsers, node.path, Registrations(node.parser.id, 1))
       IN  /\ e.q = <<>>
           /\ visited_parsers' = e.visited
           /\ q' = e.q
    /\ root_prog' = RestoredProg
    /\ patches' = Append(patches, RestoredProg)
    /\ pc' = IF mode = "walk" THEN "exhausted" ELSE "listed"
    /\ UNCHANGED <<mode, fmt, nodes, doc, exc, choices, prog_arg, original_prog, node>>
    /\ UNCHANGED externalVars
    /\ UNCHANGED extractVars

\* a later next() on a malformed parser object: line 84 raises, the finally
\* clause of lines 92-94 runs, and the exception leaves the generator (and
\* the list() call of full_help_from_parser)
WalkRaise ==
    /\ mode \in {"walk", "from_parser"} /\ pc = "yielded"
    /\ root_prog' = RestoredProg
    /\ patches' = Append(patches, RestoredProg)
    /\ pc' = "raised"
    /\ exc' = "AttributeError"
    /\ UNCHANGED <<mode, fmt, q, nodes, doc, choices, prog_arg, original_prog,
                   visited_parsers, node>>
    /\ UNCHANGED externalVars
    /\ UNCHANGED extractVars

\* lines 228-255, fmt one of the renderers' keys
ReturnFromParser ==
    /\ mode = "from_parser" /\ pc = "listed"
    /\ fmt \in Formats
    /\ doc' = Render(fmt, nodes, program_name)
    /\ pc' = "returned"
    /\ UNCHANGED <<mode, fmt, q, nodes, exc>>
    /\ UNCHANGED walkVars
    /\ UNCHANGED externalVars
    /\ UNCHANGED extractVars

\* lines 234-237, fmt no key of renderers: ValueError
RaiseFromParser ==
    /\ mode = "from_parser" /\ pc = "listed"
    /\ fmt \notin Formats
    /\ pc' = "raised"
    /\ exc' = "ValueError"
    /\ UNCHANGED <<mode, fmt, q, nodes, doc>>
    /\ UNCHANGED walkVars
    /\ UNCHANGED externalVars
    /\ UNCHANGED extractVars

NextWalk ==
    WalkBegin \/ WalkYield \/ WalkExhaust \/ WalkRaise \/ ReturnFromParser
    \/ RaiseFromParser

SpecWalk == InitWalk /\ [][NextWalk]_vars

\* _walk_parser_tree alone, its consumer calling next() until it ends
InitGenerator == InitWalk /\ mode = "walk"

NextGenerator == WalkBegin \/ WalkYield \/ WalkExhaust \/ WalkRaise

FairWalk == InitGenerator /\ [][NextGenerator]_vars /\ WF_vars(NextGenerator)

-----------------------------------------------------------------------------
(* The renderer run: one call of one renderer on a list of nodes.          *)

\* how many nodes the list of a renderer run holds at most
MaxNodes == 3

\* the paths of the nodes of a renderer run: names with a "-", a subcommand
\* named root, and a path of two names
RenderPaths ==
    { <<>>, << <<"a">> >>, << <<"a", "-", "b">> >>, << <<"a">>, <<"b">> >>, << <<"root">> >> }

\* the help texts of the nodes of a renderer run: white space only, and
\* lines with markup characters and white space around them
RenderHelps ==
    { << <<" ">> >>,
      << <<>>, <<" ", "usage:", " ", "cli", " ", "<", "x", ">", " ", "&", " ">>,
         <<>>, <<"y">>, <<" ">> >> }

\* the node lists of a renderer run
NodeLists ==
    UNION { [1..n -> {[path |-> p, parser |-> HelpOnlyParser(h, <<"cli">>)] :
                         p \in RenderPaths, h \in RenderHelps}] : n \in 0..MaxNodes }

InitRender ==
    /\ mode = "render"
    /\ pc = "call"
    /\ nodes \in NodeLists
    /\ fmt \in Formats
    /\ command = << <<"cli">> >>
    /\ doc = <<>>
    /\ max_depth = 0 /\ q = <<>> /\ visited_paths = {} /\ probes = <<>>
    /\ exc = ""
    /\ text = <<>> /\ result = <<>>
    /\ WalkIdle

\* _render_text, _render_md or _render_html called with (nodes, prog)
RenderDoc ==
    /\ mode = "render" /\ pc = "call"
    /\ doc' = Render(fmt, nodes, command[1])
    /\ pc' = "returned"
    /\ UNCHANGED <<mode, fmt, q, nodes, exc>>
    /\ UNCHANGED externalVars
    /\ UNCHANGED extractVars
    /\ UNCHANGED walkVars

NextRender == RenderDoc

SpecRender == InitRender /\ [][NextRender]_vars

-----------------------------------------------------------------------------
(* Every run: one call of one entry point.                                 *)

Init == InitExtract \/ InitExternal \/ InitWalk \/ InitRender

Next == NextExtract \/ NextExternal \/ NextWalk \/ NextRender

Spec == Init /\ [][Next]_vars

-----------------------------------------------------------------------------
(* Properties.                                                             *)

InProcess == mode \in {"walk", "from_parser"}

\* the walk ran to its end
Walked == InProcess /\ (pc \in {"exhausted", "listed", "returned"} \/ exc = "ValueError")

\* p is a path below parent
IsBelow(p, parent) == Len(p) > Len(parent) /\ SubSeq(p, 1, Len(parent)) = parent

\* the word w occurs in the text t
Mentions(t, w) == \E i \in 1..Len(t) : \E k \in 1..Len(t[i]) : t[i][k] = w

\* C1: in every discovery run, external or in-process, no two recorded nodes
\* have the same path, the first recorded node is the root (the empty path),
\* and the list handed to the renderer holds it.
C1_UniquePathsRootFirst ==
    mode \in {"external", "walk", "from_parser"} =>
        /\ \A i, j \in 1..Len(nodes) : nodes[i].path = nodes[j].path => i = j
        /\ (nodes # <<>> => nodes[1].path = <<>>)
        /\ (pc \in {"returned", "listed", "exhausted"} => nodes # <<>>)

\* C2: full_help_external records no node and invokes no child process for a
\* path longer than max_depth; with max_depth = 0 the finished loop has
\* recorded exactly one node, the root.
C2_DepthBound ==
    mode = "external" =>
        /\ \A i \in 1..Len(nodes) : Len(nodes[i].path) <= max_depth
        /\ \A i \in 1..Len(probes) :
             /\ Len(probes[i].path) <= max_depth
             /\ Len(probes[i].argv) <= Len(command) + max_depth + 1
        /\ (max_depth = 0 /\ q = <<>> => Len(nodes) = 1 /\ nodes[1].path = <<>>)

\* a run with max_depth = 0 has returned one node although the root's help
\* text listed subcommands
C2_DepthZeroWitness ==
    /\ mode = "external" /\ pc = "returned" /\ max_depth = 0
    /\ Len(nodes) = 1
    /\ probes[1].enqueued # <<>>

\* C3: full_help_external terminates: the frontier becomes empty and the call
\* returns or raises, whatever the child processes print.
C3_Terminates == <>(q = <<>> /\ pc \in {"returned", "raised"})

\* a finished run in which the root's help text and the help text of the
\* subcommand named like the program both listed the program's own token, and
\* listed one name twice
C3_SelfReferenceWitness ==
    /\ mode = "external" /\ pc = "returned"
    /\ \E i, j \in 1..Len(probes) :
         /\ probes[i].path = <<>>
         /\ probes[j].path = <<command[1]>>
         /\ \A k \in {i, j} :
              /\ \E m \in 1..Len(probes[k].enqueued) :
                   probes[k].enqueued[m].path = Append(probes[k].path, command[1])
              /\ \E m, n \in 1..Len(probes[k].enqueued) :
                   m # n /\ probes[k].enqueued[m] = probes[k].enqueued[n]

C4Failed(o) == o.kind \in {"TimeoutExpired", "FileNotFoundError"}

\* what C4 says of every state: a probe that timed out or found no command
\* left a placeholder node at its path, nothing below that path is in the
\* frontier or recorded, and no exception has left the call for it
C4_Contained ==
    /\ exc # "" => fmt \notin Formats
    /\ \A i \in 1..Len(probes) :
         C4Failed(probes[i].outcome) =>
            /\ nodes[i].path = probes[i].path
            /\ Len(nodes[i].parser.help_text) = 1
            /\ Mentions(nodes[i].parser.help_text, "Error")
            /\ IF probes[i].outcome.kind = "TimeoutExpired"
               THEN Mentions(nodes[i].parser.help_text, "timed")
                    /\ Mentions(nodes[i].parser.help_text, "out")
               ELSE Mentions(nodes[i].parser.help_text, "not")
                    /\ Mentions(nodes[i].parser.help_text, "found")
            /\ probes[i].enqueued = <<>>
            /\ \A k \in 1..Len(q) : ~IsBelow(q[k].path, probes[i].path)
            /\ \A k \in 1..Len(nodes) : ~IsBelow(nodes[k].path, probes[i].path)

\* what C4 says of every step: the probe that fails takes its own entry from
\* the frontier and nothing else, and the loop goes on
C4_SiblingsKept ==
    (Len(probes') = Len(probes) + 1 /\ C4Failed(probes'[Len(probes')].outcome))
        => (q' = Tail(q) /\ pc' = "loop" /\ exc' = "")

\* C4: a timeout or a command not found is contained: no exception leaves
\* full_help_external, a placeholder node naming the condition is recorded at
\* the path, no child of the path is ever enqueued or recorded, and the
\* siblings in the frontier are kept and all dequeued afterwards.
C4_FailureContained ==
    /\ []C4_Contained
    /\ [][C4_SiblingsKept]_vars
    /\ ((\E i \in 1..Len(probes) : C4Failed(probes[i].outcome)) ~> (q = <<>>))

\* a returned run in which a subcommand's probe timed out and a sibling that
\* was in the frontier then was probed after it
C4_SiblingAfterTimeoutWitness ==
    /\ mode = "external" /\ pc = "returned"
    /\ \E i, j \in 1..Len(probes) :
         /\ i < j
         /\ probes[i].outcome.kind = "TimeoutExpired"
         /\ probes[i].path # <<>>
         /\ Len(probes[j].path) = Len(probes[i].path)
         /\ probes[j].outcome.kind = "exit"

\* C5: when the child process exits with a non-zero code, the node's help
\* text is the warning banner, a blank line and the captured output, and the
\* children enqueued are those the captured output alone lists, in order.
C5_NonZeroExitStillExpands ==
    \A i \in 1..Len(probes) :
        LET o == probes[i].outcome
            h == nodes[i].parser.help_text
            names == _find_subcommands_from_help(o.output)
        IN  (o.kind = "exit" /\ o.returncode # 0) =>
               /\ Len(h) >= 2
               /\ Len(h[1]) >= 3 /\ h[1][1] = "[" /\ h[1][2] = "Warning"
               /\ h[1][Len(h[1])] = "]"
               /\ h[2] = <<>>
               /\ SubSeq(h, 3, Len(h)) = StripText(o.output)
               /\ probes[i].enqueued =
                    [k \in 1..Len(names) |->
                        [path |-> Append(probes[i].path, names[k]),
                         cmd_list |-> command \o Append(probes[i].path, names[k])]]

\* a child process exited non-zero, its output listed subcommands, and one of
\* them was probed later
C5_NonZeroExitWitness ==
    /\ mode = "external"
    /\ \E i, j \in 1..Len(probes) :
         /\ probes[i].outcome.kind = "exit" /\ probes[i].outcome.returncode # 0
         /\ probes[i].enqueued # <<>>
         /\ probes[j].path = probes[i].enqueued[1].path

\* C6: once _walk_parser_tree is exhausted or has raised, and once
\* full_help_from_parser has returned or raised, root_parser.prog is what it
\* was before the call.
C6_ProgRestored ==
    (InProcess /\ pc \in {"exhausted", "listed", "returned", "raised"})
        => root_prog = BuiltProg

\* the walk raised on its second or a later node after the root's prog had
\* been set to an override that differs from it
C6_RaisedAfterPatchWitness ==
    /\ InProcess /\ pc = "raised" /\ exc = "AttributeError"
    /\ Len(nodes) >= 2
    /\ Len(patches) = 2 /\ patches[1] # BuiltProg /\ patches[1] = prog_arg

\* the node that holds a parser is at the path of the first registration of
\* that parser in the first yielded node that registers it
FirstReached(j) ==
    LET p == nodes[j].parser.id
        Registers(i) == {k \in 1..Len(Registrations(nodes[i].parser.id, 1)) :
                            Registrations(nodes[i].parser.id, 1)[k].subparser = p}
        parents == {i \in 1..Len(nodes) : Registers(i) # {}}
    IN  /\ parents # {}
        /\ LET i == CHOOSE x \in parents : \A y \in parents : x <= y
               k == CHOOSE x \in Registers(i) : \A y \in Registers(i) : x <= y
           IN  /\ i < j
               /\ nodes[j].path =
                    Append(nodes[i].path, Registrations(nodes[i].parser.id, 1)[k].name)

\* what C7 says of every state
C7_EachOnce ==
    InProcess =>
        /\ \A i, j \in 1..Len(nodes) : nodes[i].parser.id = nodes[j].parser.id => i = j
        /\ \A i, j \in 1..Len(nodes) : i <= j => Len(nodes[i].path) <= Len(nodes[j].path)
        /\ (Walked =>
              /\ {nodes[i].parser.id : i \in 1..Len(nodes)} = ReachableFrom({Root}, choices)
              /\ nodes[1].parser.id = Root /\ nodes[1].path = <<>>
              /\ \A j \in 2..Len(nodes) : FirstReached(j))

\* C7: _walk_parser_tree yields every parser object reachable from the root
\* exactly once, in breadth-first order, each under the first path by which
\* it was reached, and the walk ends, also with aliases, shared subparsers
\* and cycles.
C7_WalkVisitsEachOnce ==
    /\ []C7_EachOnce
    /\ <>(pc \in {"exhausted", "listed", "returned", "raised"})

\* an exhausted walk over registrations with a cycle back to the root and one
\* subparser registered under two names
C7_AliasCycleWitness ==
    /\ mode = "walk" /\ pc = "exhausted"
    /\ \E key \in DOMAIN choices : key[1] # Root /\ choices[key] = Root
    /\ \E k1, k2 \in DOMAIN choices :
         k1 # k2 /\ choices[k1] = choices[k2] /\ choices[k1] # Root
    /\ Len(nodes) = 2

\* C8: full_help_from_parser and full_help_external reject a format that is
\* none of text, md, html before any traversal step: no child process has
\* been invoked, no node collected and the root's prog never assigned.
C8_FormatRejectedFirst ==
    (mode \in {"external", "from_parser"} /\ fmt \notin Formats)
        => (probes = <<>> /\ nodes = <<>> /\ patches = <<>>)

\* C9: when pattern 1 finds a choice group in the usage block the result is
\* that group's tokens, whatever the labeled section holds; otherwise the
\* result is what pattern 2 yields for the labeled section.
C9_PriorityChain ==
    (mode = "extract" /\ pc = "returned") =>
        LET u == UsagePattern(<<Head(text)>>)
        IN  IF u.found THEN result = u.group
            ELSE result = SectionPattern(Tail(text))

\* pattern 1 found a group, the labeled section lists commands, and the
\* result is not the section's list
C9_UsageWinsWitness ==
    /\ mode = "extract" /\ pc = "returned"
    /\ UsagePattern(<<Head(text)>>).found
    /\ SectionPattern(Tail(text)) # <<>>
    /\ result # SectionPattern(Tail(text))

\* how many "[" are open before position i of s
BracketDepth(s, i) ==
    Cardinality({k \in 1..(i-1) : s[k] = "["}) - Cardinality({k \in 1..(i-1) : s[k] = "]"})

\* every "]" of s closes a "[" and every "[" is closed
Bracketed(s) ==
    /\ \A i \in 1..Len(s) : BracketDepth(s, i + 1) >= 0
    /\ BracketDepth(s, Len(s) + 1) = 0

\* where the choice groups of s start that lie outside every bracket group
OutsideGroups(s) ==
    {i \in 1..Len(s) :
        /\ s[i] = "{"
        /\ BracketDepth(s, i) = 0
        /\ \E j \in (i+2)..Len(s) :
             s[j] = "}" /\ \A m \in (i+1)..(j-1) : IsChoiceChar(s[m])}

\* the comma-split tokens of the choice group that starts at i
GroupTokens(s, i) ==
    LET j == CHOOSE x \in (i+1)..Len(s) : s[x] = "}" /\ \A m \in (i+1)..(x-1) : s[m] # "}"
    IN  SplitComma(SubSeq(s, i + 1, j - 1))

\* C10: for a usage line whose brackets pair up, pattern 1 returns the tokens
\* of the first choice group outside every bracket group, and never a group
\* inside one: with no group outside, the result is pattern 2's.
C10_BracketedChoicesIgnored ==
    (mode = "extract" /\ pc = "returned" /\ Bracketed(Head(text))) =>
        LET s == Head(text)
            out == OutsideGroups(s)
        IN  IF out # {}
            THEN result = GroupTokens(s, CHOOSE i \in out : \A k \in out : i <= k)
            ELSE result = SectionPattern(Tail(text))

\* no element of the list s occurs in it twice
NoDuplicates(s) == \A i, j \in 1..Len(s) : s[i] = s[j] => i = j

\* where the name first stands in the string s as a whole token
FirstPos(name, s) ==
    LET at == {k \in 1..(Len(s) - Len(name) + 1) :
                  /\ SubSeq(s, k, k + Len(name) - 1) = name
                  /\ (k > 1 => ~IsNameChar(s[k - 1]))
                  /\ (k + Len(name) <= Len(s) => ~IsNameChar(s[k + Len(name)]))}
    IN  IF at = {} THEN 0 ELSE CHOOSE k \in at : \A m \in at : k <= m

\* the part of the text the strategy that returned has read
PartRead == IF UsagePattern(<<Head(text)>>).found THEN Head(text) ELSE Flatten(Tail(text))

\* the names of the result stand in the text in the order of the result
C11_FirstSeenOrder ==
    (mode = "extract" /\ pc = "returned") =>
        \A i, j \in 1..Len(result) :
            (i < j /\ result[i] # result[j] /\ result[i] # <<>> /\ result[j] # <<>>)
                => /\ FirstPos(result[i], PartRead) > 0
                   /\ FirstPos(result[i], PartRead) <= FirstPos(result[j], PartRead)

\* C11: the list _find_subcommands_from_help returns holds no name twice and
\* keeps the names in the order of their first appearance in the text, under
\* both strategies.
C11_DeduplicatedInOrder ==
    (mode = "extract" /\ pc = "returned") =>
        /\ NoDuplicates(result)
        /\ C11_FirstSeenOrder

\* how many white-space characters the line starts with
Indent(line) == Cardinality({i \in 1..Len(line) : \A k \in 1..i : IsSpace(line[k])})

\* the line is indented and starts with a name
StartsWithName(line) ==
    Indent(line) > 0 /\ Indent(line) < Len(line) /\ IsNameChar(line[Indent(line) + 1])

\* the name an entry line starts with
EntryName(line) ==
    LET from == Indent(line) + 1
        run == {k \in from..Len(line) : \A m \in from..k : IsNameChar(line[m])}
    IN  SubSeq(line, from, from + Cardinality(run) - 1)

\* the lines after the header are command entries, all indented alike, some
\* followed by deeper-indented lines that continue the description
WrappedEntries(ls) ==
    /\ ls # <<>>
    /\ StartsWithName(ls[1])
    /\ \A i \in 1..Len(ls) :
         \/ (Indent(ls[i]) = Indent(ls[1]) /\ StartsWithName(ls[i]))
         \/ (Indent(ls[i]) > Indent(ls[1]) /\ Indent(ls[i]) < Len(ls[i]))

\* C12: for a labeled section whose lines are command entries, some followed
\* by indented lines that continue the description, pattern 2 returns exactly
\* the entry names in order: a continuation line adds no name.
C12_ContinuationAddsNoName ==
    (/\ mode = "extract" /\ pc = "returned"
     /\ ~UsagePattern(<<Head(text)>>).found
     /\ Len(text) >= 4 /\ header_match(text[3])
     /\ WrappedEntries(SubSeq(text, 4, Len(text))))
    => LET ls == SubSeq(text, 4, Len(text))
           IsEntryLine(l) == Indent(l) = Indent(ls[1])
           entries == SelectSeq(ls, IsEntryLine)
       IN  result = [i \in 1..Len(entries) |-> EntryName(entries[i])]

\* the name the renderer of the run is called with
RenderProg == IF mode = "from_parser" THEN program_name ELSE command[1]

\* the rule between two sections of the plain-text document
TextRule == [k \in 1..RuleWidth |-> "-"]

\* the header line of the section of node i
TextHeader(i) ==
    <<"$", " ">> \o JoinWith(<<RenderProg>> \o nodes[i].path, <<" ">>) \o <<" ", "--help">>

\* the lines of the trimmed help text of node i (an empty text is one empty line)
TextBody(i) ==
    IF StripText(_get_help_string(nodes[i].parser)) = <<>> THEN << <<>> >>
    ELSE StripText(_get_help_string(nodes[i].parser))

\* the line of the document the section of node i starts at
RECURSIVE TextStart(_)
TextStart(i) == IF i = 1 THEN 1 ELSE TextStart(i - 1) + 2 + Len(TextBody(i - 1)) + 3

\* C13: the plain-text document holds one section per node, in the order of
\* the list: the header line "$ <root_name> <path tokens> --help", a line of
\* "=" as long as the header, the trimmed help text; the rule of "-" stands
\* between consecutive sections only (n-1 rules for n nodes).
C13_TextLayout ==
    (mode \in {"render", "external", "from_parser"} /\ pc = "returned" /\ fmt = "text") =>
        LET n == Len(nodes)
        IN  /\ Len(doc) = IF n = 0 THEN 0 ELSE TextStart(n) + 1 + Len(TextBody(n))
            /\ \A i \in 1..n :
                 /\ doc[TextStart(i)] = TextHeader(i)
                 /\ Len(doc[TextStart(i) + 1]) = CharLen(TextHeader(i))
                 /\ \A k \in 1..Len(doc[TextStart(i) + 1]) : doc[TextStart(i) + 1][k] = "="
                 /\ SubSeq(doc, TextStart(i) + 2, TextStart(i) + 1 + Len(TextBody(i)))
                      = TextBody(i)
                 /\ i < n =>
                      SubSeq(doc, TextStart(i + 1) - 3, TextStart(i + 1) - 1)
                        = << <<>>, TextRule, <<>> >>
            /\ Cardinality({k \in 1..Len(doc) : doc[k] = TextRule})
                 = IF n = 0 THEN 0 ELSE n - 1

\* a plain-text document of three nodes was rendered: the root, a node at a
\* path of two names, and a node whose help text is white space only
C13_ThreeSectionsWitness ==
    /\ mode = "render" /\ pc = "returned" /\ fmt = "text"
    /\ Len(nodes) = 3
    /\ nodes[1].path = <<>> /\ Len(nodes[2].path) = 2
    /\ StripText(nodes[3].parser.help_text) = <<>>
    /\ StripText(nodes[1].parser.help_text) # nodes[1].parser.help_text

\* C14: in every state of an external run the frontier holds no path that
\* is already visited and holds no path twice, also when one help text lists
\* the same subcommand name more than once.
C14_FrontierFresh ==
    mode = "external" =>
        /\ \A i \in 1..Len(q) : q[i].path \notin visited_paths
        /\ \A i, j \in 1..Len(q) : q[i].path = q[j].path => i = j

\* the paths ever put into the frontier up to probe k, in the order they
\* were put there: the root, then what each probe enqueued
RECURSIVE EnqueuedUpTo(_)
EnqueuedUpTo(k) ==
    IF k = 0 THEN << <<>> >>
    ELSE EnqueuedUpTo(k - 1)
         \o [i \in 1..Len(probes[k].enqueued) |-> probes[k].enqueued[i].path]

\* a sequence of paths without the repetitions of a path after its first place
RECURSIVE KeepFirst(_)
KeepFirst(s) ==
    IF s = <<>> THEN <<>>
    ELSE LET r == KeepFirst(SubSeq(s, 1, Len(s) - 1))
         IN  IF \E i \in 1..Len(r) : r[i] = s[Len(s)] THEN r ELSE Append(r, s[Len(s)])

\* the paths the frontier order asks a child process for: each enqueued path
\* within max_depth, once, in the order of its first enqueueing
FrontierOrder ==
    LET NotTooDeep(path) == ~(Len(path) > max_depth)
    IN  SelectSeq(KeepFirst(EnqueuedUpTo(Len(probes))), NotTooDeep)

\* the invocations and the nodes agree, and the invocations follow the frontier
C15_InvocationsMatchNodes ==
    mode = "external" =>
        /\ Len(probes) = Len(nodes)
        /\ \A i \in 1..Len(probes) :
             /\ probes[i].path = nodes[i].path
             /\ probes[i].argv = command \o probes[i].path \o << <<"--help">> >>
             /\ Len(probes[i].path) <= max_depth
             /\ \A j \in 1..Len(probes) : probes[i].path = probes[j].path => i = j
        /\ Len(probes) <= Len(FrontierOrder)
        /\ \A i \in 1..Len(probes) : probes[i].path = FrontierOrder[i]
        /\ pc # "loop" => Len(probes) = Len(FrontierOrder)

\* one step invokes at most one child process, and invokes one exactly when
\* it records a node; the invocations made stay as they were
C15_OneAtATime ==
    mode = "external" =>
        /\ Len(probes') \in {Len(probes), Len(probes) + 1}
        /\ SubSeq(probes', 1, Len(probes)) = probes
        /\ (Len(probes') = Len(probes) + 1) <=> (Len(nodes') = Len(nodes) + 1)

\* C15: in full_help_external the child processes are invoked one after
\* another in frontier (breadth-first) order, exactly once per recorded node
\* and never for a skipped path, each with the argument vector base command +
\* path tokens + --help; there are as many invocations as nodes in the result.
C15_SequentialProbes == [](C15_InvocationsMatchNodes) /\ [][C15_OneAtATime]_vars

\* a root listing two leaf subcommands was probed: three invocations, three
\* nodes in the returned document's list
C15_RootAndTwoLeavesWitness ==
    /\ mode = "external" /\ pc = "returned"
    /\ Len(probes) = 3 /\ Len(nodes) = 3
    /\ probes[1].path = <<>>
    /\ Len(probes[1].enqueued) = 2
    /\ probes[2].path = probes[1].enqueued[1].path
    /\ probes[3].path = probes[1].enqueued[2].path
    /\ probes[2].path # probes[3].path
    /\ probes[2].enqueued = <<>> /\ probes[3].enqueued = <<>>

\* C16: when full_help_from_parser is called with a prog override that
\* differs from parser.prog, the root's prog is the override when the root's
\* help text is formatted for the returned document (the nodes are listed and
\* the renderer is about to run), and the usage line of the root's section of
\* the document names the override.
C16_PatchedWhileFormatting ==
    (mode = "from_parser" /\ prog_arg # <<>> /\ prog_arg # BuiltProg) =>
        /\ pc = "listed" => root_prog = prog_arg
        /\ (pc = "returned" /\ fmt = "text") =>
              doc[3] = <<"usage:", " ">> \o prog_arg \o <<" ", "[", "-", "h", "]">>

\* C17: in the HTML document of a node list with unique paths (names with a
\* "-" and a subcommand named root among them) nodes at distinct paths have
\* distinct anchor ids: the link of each node targets the heading of its own
\* node and of no other.
C17_AnchorsInjective ==
    (/\ mode \in {"render", "external", "from_parser"}
     /\ pc = "returned" /\ fmt = "html"
     /\ \A i, j \in 1..Len(nodes) : nodes[i].path = nodes[j].path => i = j)
    => \A i, j \in 1..Len(nodes) :
          doc.toc[i].href = doc.body[j].id => i = j

\* C18: for every node of an external run, the command named in the header
\* of its section of the plain-text document is the argument vector that was
\* invoked for the node (base command + path + --help), also when the base
\* command has more than one token.
C18_HeaderNamesInvokedCommand ==
    (mode = "external" /\ pc = "returned" /\ fmt = "text") =>
        \A i \in 1..Len(nodes) :
            doc[TextStart(i)] = <<"$", " ">> \o JoinWith(probes[i].argv, <<" ">>)

====
